---- MODULE Spec2Model ----
(***************************************************************************)
(* Model of the mongodialect data-access layer: the connection handle      *)
(* (Driver) and the typed collection binding (Repository).                 *)
(*                                                                         *)
(* Go strings are modelled as sequences of one-character strings, so that  *)
(* strings.Trim, strings.Split and the case folding of the decoders are    *)
(* computed, not assumed.  Go maps are functions with a finite domain.     *)
(* A call ends in one of three ways, recorded in ret.status: "ok" (value   *)
(* returned, nil error), "err" (error value returned) or "panic" (the      *)
(* goroutine crashes: nil dereference or reflect panic).                   *)
(***************************************************************************)
EXTENDS Integers, Sequences, FiniteSets, TLC

VARIABLES driver, r, store, ret, calls

vars == <<driver, r, store, ret, calls>>

----------------------------------------------------------------------------
(* Bounds of the model *)

\* most documents the collection holds
MaxDocs == 2

\* most entries of a changes map handed to Update
MaxChanges == 2

----------------------------------------------------------------------------
(* Strings *)

EmptyStr == << >>

sID == <<"I", "D">>
sAge == <<"A", "g", "e">>
sid == <<"i", "d">>
sage == <<"a", "g", "e">>
sX == <<"X">>
sY == <<"Y">>
sB == <<"B">>
sb == <<"b">>
sBlankB == <<" ", "b">>
sZZ == <<"z", "z">>
sDefaultID == <<"_", "i", "d">>
sBlank == <<" ">>
sTest == <<"t", "e", "s", "t">>
sKey == <<"k", "e", "y">>

\* struct tags as they are written in the source of a record type
tagID == <<"I", "D", ",", " ", "o", "e">>
tagAge == <<"a", "g", "e", ",", " ", "o", "e">>
tagB == <<" ", "b", ",", "o", "e">>
tagX == <<"Y">>
tagY == <<"X">>
tagKey == <<"k", "e", "y">>

\* strings.Trim(s, " ")
RECURSIVE TrimLeft(_)
TrimLeft(s) ==
    IF s # << >> /\ Head(s) = " " THEN TrimLeft(Tail(s)) ELSE s

RECURSIVE TrimRight(_)
TrimRight(s) ==
    IF s # << >> /\ s[Len(s)] = " " THEN TrimRight(SubSeq(s, 1, Len(s) - 1)) ELSE s

Trim(s) == TrimRight(TrimLeft(s))

\* strings.Split(s, ",")[0]
RECURSIVE SplitFirst(_)
SplitFirst(s) ==
    IF s = << >> \/ Head(s) = "," THEN << >> ELSE <<Head(s)>> \o SplitFirst(Tail(s))

\* strings.ToLower on the alphabet of the model
LowerChar(c) ==
    CASE c = "I" -> "i"
      [] c = "D" -> "d"
      [] c = "A" -> "a"
      [] c = "B" -> "b"
      [] c = "X" -> "x"
      [] c = "Y" -> "y"
      [] OTHER -> c

ToLower(s) == [i \in 1..Len(s) |-> LowerChar(s[i])]

\* strings.EqualFold
EqualFold(s, t) == ToLower(s) = ToLower(t)

----------------------------------------------------------------------------
(* Record shapes: the reflect.Type values handed to NewRepository *)

NoFields == << >>

\* type testDocument struct, its fields annotated as in the test setup
testDocumentFields ==
    << [Name |-> sID, hasTag |-> TRUE, Tag |-> tagID],
       [Name |-> sAge, hasTag |-> TRUE, Tag |-> tagAge] >>

\* a struct with an unannotated field, an annotation written with a leading
\* blank, and two fields whose annotations name each other
mixedDocumentFields ==
    << [Name |-> sID, hasTag |-> FALSE, Tag |-> EmptyStr],
       [Name |-> sB, hasTag |-> TRUE, Tag |-> tagB],
       [Name |-> sX, hasTag |-> TRUE, Tag |-> tagX],
       [Name |-> sY, hasTag |-> TRUE, Tag |-> tagY] >>

\* the test document with its identifier stored under another name
keyedDocumentFields ==
    << [Name |-> sID, hasTag |-> TRUE, Tag |-> tagKey],
       [Name |-> sAge, hasTag |-> TRUE, Tag |-> tagAge] >>

StructOf(fields) == [kind |-> "struct", elem |-> "none", fields |-> fields]
PtrTo(t) == [kind |-> "ptr", elem |-> t.kind, fields |-> t.fields]
UintType == [kind |-> "uint", elem |-> "none", fields |-> NoFields]
\* the nil reflect.Type interface value
NilType == [kind |-> "nil", elem |-> "none", fields |-> NoFields]

PtrTestDocument == PtrTo(StructOf(testDocumentFields))
PtrMixedDocument == PtrTo(StructOf(mixedDocumentFields))
PtrUint == PtrTo(UintType)
PtrKeyedDocument == PtrTo(StructOf(keyedDocumentFields))

\* every shape a caller hands to NewRepository in the model
Shapes ==
    { PtrTestDocument, PtrMixedDocument, PtrUint,
      StructOf(testDocumentFields), UintType, NilType }

\* the shapes the documentation calls record shapes: pointer to a struct
IsRecordShape(t) == t.kind = "ptr" /\ t.elem = "struct"

----------------------------------------------------------------------------
(* Results of calls *)

NoReqs == << >>
NoVal == << >>

Result(status, err, val, reqs) ==
    [status |-> status, err |-> err, val |-> val, reqs |-> reqs]

Ok(val, reqs) == Result("ok", "nil", val, reqs)
Err(err, reqs) == Result("err", err, NoVal, reqs)
Panic(reqs) == Result("panic", "nil", NoVal, reqs)

\* what the last call was, what it was given and how it ended; pre is the
\* collection as it was when the call began
Ret(op, args, res, pre) ==
    [op |-> op, args |-> args, status |-> res.status, err |-> res.err,
     val |-> res.val, reqs |-> res.reqs, pre |-> pre]

NoRet == Ret("none", << >>, Ok(NoVal, NoReqs), << >>)

\* the goroutines that call into one binding at the same time
Callers == {"c1", "c2"}

----------------------------------------------------------------------------
(* The connection handle *)

URLs == {"mongodb://a:1", "mongodb://b:2"}
NoURI == ""

\* the URI the caller configured in driver.Options before opening: none, or
\* an explicit endpoint
ConfiguredURIs == {NoURI, "mongodb://c:3"}

NilClient == [present |-> FALSE, connected |-> FALSE, uri |-> NoURI]

\* NewDriver: options.Client() carries no URI, Client is the zero value
NewDriver(url) == [URL |-> url, Options |-> NoURI, Client |-> NilClient]

\* the state of the handle after OpenConnection; connectOK is whether
\* mongo.Connect succeeds.  ApplyURI writes the URI into driver.Options
\* itself (opts aliases it); Connect returns a nil client with its error.
OpenConnectionDriver(d, connectOK) ==
    LET uri == IF d.Options = NoURI THEN d.URL ELSE d.Options
    IN  [d EXCEPT !.Options = uri,
                  !.Client = IF connectOK
                             THEN [present |-> TRUE, connected |-> TRUE, uri |-> uri]
                             ELSE NilClient]

OpenConnectionResult(d, connectOK) ==
    IF connectOK THEN Ok(NoVal, <<[call |-> "Connect", ctx |-> "caller"]>>)
    ELSE Err("ErrConnect", <<[call |-> "Connect", ctx |-> "caller"]>>)

\* the state of the handle after CloseConnection; disconnectOK is whether
\* the teardown of a connected client succeeds, torn is whether a failed
\* teardown still left the client disconnected.  The Client field is not
\* written.
CloseConnectionDriver(d, disconnectOK, torn) ==
    IF ~d.Client.present THEN d
    ELSE IF ~d.Client.connected THEN d
    ELSE IF disconnectOK \/ torn THEN [d EXCEPT !.Client.connected = FALSE]
    ELSE d

CloseConnectionResult(d, disconnectOK) ==
    IF ~d.Client.present THEN Ok(NoVal, NoReqs)
    ELSE IF ~d.Client.connected
         THEN Err("ErrClientDisconnected", <<[call |-> "Disconnect", ctx |-> "caller"]>>)
    ELSE IF disconnectOK THEN Ok(NoVal, <<[call |-> "Disconnect", ctx |-> "caller"]>>)
    ELSE Err("ErrDisconnect", <<[call |-> "Disconnect", ctx |-> "caller"]>>)

\* the error of Client.Ping, "nil" when the probe succeeds; a disconnected
\* client answers every operation with ErrClientDisconnected
Ping(d, probeOK) ==
    IF ~d.Client.connected THEN "ErrClientDisconnected"
    ELSE IF probeOK THEN "nil"
    ELSE "ErrPing"

IsAliveResult(d, probeOK) ==
    IF ~d.Client.present THEN Ok(FALSE, NoReqs)
    ELSE Ok(Ping(d, probeOK) # "nil", <<[call |-> "Ping", ctx |-> "caller"]>>)

OpenConnection(connectOK) ==
    /\ driver' = OpenConnectionDriver(driver, connectOK)
    /\ ret' = Ret("OpenConnection", <<connectOK>>, OpenConnectionResult(driver, connectOK), << >>)
    /\ UNCHANGED <<r, store, calls>>

CloseConnection(disconnectOK, torn) ==
    /\ driver' = CloseConnectionDriver(driver, disconnectOK, torn)
    /\ ret' = Ret("CloseConnection", <<driver.Client.present>>,
                  CloseConnectionResult(driver, disconnectOK), << >>)
    /\ UNCHANGED <<r, store, calls>>

IsAlive(probeOK) ==
    /\ ret' = Ret("IsAlive", <<probeOK>>, IsAliveResult(driver, probeOK), << >>)
    /\ UNCHANGED <<driver, r, store, calls>>

\* the caller assigns the exported URL field of the handle
SetURL(url) ==
    /\ driver.URL # url
    /\ driver' = [driver EXCEPT !.URL = url]
    /\ ret' = Ret("SetURL", <<url>>, Ok(NoVal, NoReqs), << >>)
    /\ UNCHANGED <<r, store, calls>>

----------------------------------------------------------------------------
(* The typed collection binding *)

\* no binding: the nil *Repository
NoRepo ==
    [valid |-> FALSE, baseType |-> NilType, idField |-> EmptyStr,
     collection |-> EmptyStr, Driver |-> "nil"]

\* NewRepository(baseType, driver, collection, idField); drv is "nil" for
\* the nil *Driver and "driver" for the handle.  The result's val is the
\* binding.  Kind() on the nil reflect.Type is a call on a nil interface.
NewRepository(baseType, drv, collection, idField) ==
    IF drv = "nil" THEN Err("ErrDriverNil", NoReqs)
    ELSE IF collection = EmptyStr THEN Err("ErrCollectionEmpty", NoReqs)
    ELSE IF baseType.kind = "nil" THEN Panic(NoReqs)
    ELSE IF baseType.kind # "ptr" THEN Err("ErrBaseTypeNotPointer", NoReqs)
    ELSE Ok([valid |-> TRUE,
             baseType |-> baseType,
             idField |-> IF idField = EmptyStr THEN sDefaultID ELSE idField,
             collection |-> collection,
             Driver |-> drv], NoReqs)

\* Repository.Type
Type(rr) == rr.baseType

Collections == {EmptyStr, sBlank, sTest}
IdFields == {EmptyStr, sBlank, sID, sDefaultID}
DriverRefs == {"nil", "driver"}

\* a caller constructs a binding; a failed construction leaves it without one
Construct(baseType, drv, collection, idField) ==
    /\ ~r.valid
    /\ LET res == NewRepository(baseType, drv, collection, idField)
       IN  /\ r' = IF res.status = "ok" THEN res.val ELSE NoRepo
           /\ ret' = Ret("NewRepository", <<baseType, drv, collection, idField>>,
                         IF res.status = "ok" THEN Ok(Type(res.val), NoReqs) ELSE res,
                         << >>)
    /\ UNCHANGED <<driver, store, calls>>

----------------------------------------------------------------------------
(* Documents, filters and the driver's codecs *)

\* a Go map with one entry, with two entries, and the empty map
EmptyMap == << >>
Map1(k, v) == [x \in {k} |-> v]
Map2(k1, v1, k2, v2) == [x \in {k1, k2} |-> IF x = k1 THEN v1 ELSE v2]

FieldSet(t) == {t.fields[i] : i \in DOMAIN t.fields}
FieldNames(t) == {f.Name : f \in FieldSet(t)}

\* the key under which the driver's struct codec stores a field: the first
\* comma-separated segment of the bson tag, else the lower-cased field name
BsonKey(field) ==
    IF field.hasTag /\ SplitFirst(field.Tag) # EmptyStr
    THEN SplitFirst(field.Tag)
    ELSE ToLower(field.Name)

\* the document the driver writes for a value of the struct shape t
Encode(t, dec) ==
    [k \in {BsonKey(f) : f \in FieldSet(t)} |->
        dec[(CHOOSE f \in FieldSet(t) : BsonKey(f) = k).Name]]

\* the document keys the struct codec reads into field: the exact key, else
\* a key whose lower-cased form is the field's key and that names no field
\* exactly
KeysOfField(t, field, doc) ==
    {k \in DOMAIN doc :
        \/ k = BsonKey(field)
        \/ /\ \A g \in FieldSet(t) : BsonKey(g) # k
           /\ ToLower(k) = BsonKey(field)}

\* the value cursor.Decode leaves in a field (fields are unsigned integers,
\* absent keys leave the zero value)
DecodedField(t, field, doc) ==
    IF BsonKey(field) \in DOMAIN doc THEN doc[BsonKey(field)]
    ELSE IF KeysOfField(t, field, doc) # {}
         THEN doc[CHOOSE k \in KeysOfField(t, field, doc) : TRUE]
    ELSE 0

\* cursor.Decode into a fresh value of the element type of t: a document
\* does not decode into a non-struct, a negative number not into an
\* unsigned field
DecodeDoc(t, doc) ==
    IF t.elem # "struct" THEN Err("ErrDecode", NoReqs)
    ELSE IF \E f \in FieldSet(t) : DecodedField(t, f, doc) < 0
         THEN Err("ErrDecode", NoReqs)
    ELSE Ok([n \in FieldNames(t) |->
               DecodedField(t, CHOOSE f \in FieldSet(t) : f.Name = n, doc)], NoReqs)

\* the driver's match of a document against an equality filter
Matches(doc, f) == \A k \in DOMAIN f : k \in DOMAIN doc /\ doc[k] = f[k]

MatchingDocs(st, f) == SelectSeq(st, LAMBDA doc : Matches(doc, f))

\* index of the first document of st matching f, 0 when there is none
FirstMatch(st, f) ==
    IF \E i \in DOMAIN st : Matches(st[i], f)
    THEN CHOOSE i \in DOMAIN st :
            Matches(st[i], f) /\ \A j \in 1..(i - 1) : ~Matches(st[j], f)
    ELSE 0

\* a sequence without its i-th element
RemoveAt(st, i) == SubSeq(st, 1, i - 1) \o SubSeq(st, i + 1, Len(st))

\* a client that goes on serving after Disconnect
DriverErr_servesAfterDisconnect(d, netOK) ==
    IF ~netOK THEN "ErrDriver" ELSE "nil"

\* the error of an operation on the client, "nil" when it goes through; a
\* disconnected client answers every operation with ErrClientDisconnected
DriverErr(d, netOK) ==
    IF ~d.Client.connected THEN "ErrClientDisconnected"
    ELSE IF ~netOK THEN "ErrDriver"
    ELSE "nil"

\* a call into the driver, with the context it was given
Req(call, ctx, rr, filter, arg) ==
    [call |-> call, ctx |-> ctx, coll |-> rr.collection, filter |-> filter, arg |-> arg]

----------------------------------------------------------------------------
(* Helpers of the binding *)

\* collection(r) dereferences r.Driver.Client: a nil client crashes the call
CollectionPanics(d) == ~d.Client.present

\* the value mapstructure reads for a struct field from the input map: the
\* entry whose key is the field name, else one whose key equals it under
\* case folding, else none (the field keeps its zero value)
InputOfField(field, m) ==
    IF field.Name \in DOMAIN m THEN m[field.Name]
    ELSE IF \E k \in DOMAIN m : EqualFold(k, field.Name)
         THEN m[CHOOSE k \in DOMAIN m : EqualFold(k, field.Name)]
    ELSE 0

\* decodeIntoBase(r, v): v is a map (kind "map", entries m) or an unsigned
\* number (kind "scalar", value n)
decodeIntoBase(rr, v) ==
    LET t == rr.baseType
    IN  IF t.elem = "struct"
        THEN IF v.kind # "map" THEN Err("ErrDecode", NoReqs)
             ELSE IF \E f \in FieldSet(t) : InputOfField(f, v.m) < 0
                  THEN Err("ErrDecode", NoReqs)
             ELSE Ok([n \in FieldNames(t) |->
                        InputOfField(CHOOSE f \in FieldSet(t) : f.Name = n, v.m)], NoReqs)
        ELSE IF v.kind # "scalar" \/ v.n < 0 THEN Err("ErrDecode", NoReqs)
             ELSE Ok(v.n, NoReqs)

\* the fieldMappings of filterMap after the fields i..n have been entered
\* into acc: bson name -> field name, a later field replacing an earlier one
RECURSIVE FieldMappings(_, _, _)
FieldMappings(fields, i, acc) ==
    IF i > Len(fields) THEN acc
    ELSE LET field == fields[i]
             key == IF field.hasTag THEN SplitFirst(Trim(field.Tag)) ELSE field.Name
         IN  FieldMappings(fields, i + 1,
                 [k \in DOMAIN acc \cup {key} |-> IF k = key THEN field.Name ELSE acc[k]])

\* el.FieldByName(name): the empty name finds nothing
FieldByName(t, name) == name # EmptyStr /\ name \in FieldNames(t)

\* filterMap keeping the keys that are field names
filterMap_byFieldName(rr, v) ==
    [k \in {k \in DOMAIN v : FieldByName(rr.baseType, k)} |-> v[k]]

\* filterMap removing nothing
filterMap_keepsAll(rr, v) == v

\* filterMap(r, v): the entries of v that are left in it
filterMap(rr, v) ==
    LET fm == FieldMappings(rr.baseType.fields, 1, EmptyMap)
        realName(k) == IF k \in DOMAIN fm THEN fm[k] ELSE EmptyStr
        kept == {k \in DOMAIN v : FieldByName(rr.baseType, realName(k))}
    IN  [k \in kept |-> v[k]]

\* el.NumField() panics unless el is a struct
filterMapPanics(rr) == rr.baseType.elem # "struct"

\* the documents a cursor over docs yields before Next reports false: all of
\* them, or only the first failAt when a later batch cannot be fetched (the
\* reply to the query carries the first batch, which is not empty)
Yielded(docs, failAt) ==
    IF failAt >= 1 /\ failAt < Len(docs) THEN SubSeq(docs, 1, failAt) ELSE docs

\* one instance, allocated before the loop, for every turn
NewInstance_once(i) == 1

\* reflect.New(el) in the i-th turn of the loop of decodeCursor: the address
\* of a newly allocated value, addresses being numbered as they are allocated
NewInstance(i) == i

\* the memory mem with the value val stored at address slot
Stored(mem, slot, val) ==
    [a \in DOMAIN mem \cup {slot} |-> IF a = slot THEN val ELSE mem[a]]

\* the values the caller finds behind the pointers of matches
Pointees(mem, matches) == [j \in DOMAIN matches |-> mem[matches[j]]]

\* the loop of decodeCursor from the i-th yielded document on; matches holds
\* the pointers appended so far, mem the values behind them.  Every cur.Next
\* is given context.Background(); cur.Decode takes no context.
RECURSIVE decodeCursorFrom(_, _, _, _, _, _)
decodeCursorFrom(rr, docs, i, mem, matches, reqs) ==
    LET reqsN == Append(reqs, Req("Next", "background", rr, EmptyMap, NoVal))
    IN  IF i > Len(docs) THEN Ok(Pointees(mem, matches), reqsN)
        ELSE LET slot == NewInstance(i)
                 dec == DecodeDoc(rr.baseType, docs[i])
                 reqsD == Append(reqsN, Req("Decode", "none", rr, EmptyMap, slot))
             IN  IF dec.status # "ok" THEN Err(dec.err, reqsD)
                 ELSE decodeCursorFrom(rr, docs, i + 1, Stored(mem, slot, dec.val),
                                       Append(matches, slot), reqsD)

\* decodeCursor(r, cur)
decodeCursor(rr, docs, reqs) == decodeCursorFrom(rr, docs, 1, << >>, << >>, reqs)

----------------------------------------------------------------------------
(* The CRUD methods.  d is the handle, st the collection, env what the     *)
(* database does during the call: netOK whether the operation goes         *)
(* through, failAt after how many documents the cursor fails (0: never).   *)

\* Repository.Find
Find(rr, d, st, f, env) ==
    IF CollectionPanics(d) THEN Panic(NoReqs)
    ELSE LET req == Req("Find", "caller", rr, f, NoVal)
             err == DriverErr(d, env.netOK)
         IN  IF err # "nil" THEN Err(err, <<req>>)
             ELSE decodeCursor(rr, Yielded(MatchingDocs(st, f), env.failAt), <<req>>)

\* the filter {idField: id}
IdFilter(rr, id) == Map1(rr.idField, id)

\* FindByID without the check for several matches
FindByID_firstOfMany(rr, d, st, id, env) ==
    LET found == Find(rr, d, st, IdFilter(rr, id), env)
    IN  IF found.status # "ok" THEN found
        ELSE IF Len(found.val) = 0 THEN Err("ErrDocumentNotFound", found.reqs)
        ELSE Ok(found.val[1], found.reqs)

\* Repository.FindByID
FindByID(rr, d, st, id, env) ==
    LET found == Find(rr, d, st, IdFilter(rr, id), env)
    IN  IF found.status # "ok" THEN found
        ELSE IF Len(found.val) = 0 THEN Err("ErrDocumentNotFound", found.reqs)
        ELSE IF Len(found.val) > 1 THEN Err("ErrMultipleMatches", found.reqs)
        ELSE Ok(found.val[1], found.reqs)

\* Exists asking for more than one match
Exists_moreThanOne(rr, d, st, f, env) ==
    LET found == Find(rr, d, st, f, env)
    IN  IF found.status = "panic" THEN found
        ELSE Result(found.status, found.err, Len(found.val) > 1, found.reqs)

\* Repository.Exists: the boolean is returned beside Find's error
Exists(rr, d, st, f, env) ==
    LET found == Find(rr, d, st, f, env)
    IN  IF found.status = "panic" THEN found
        ELSE Result(found.status, found.err, Len(found.val) > 0, found.reqs)

\* Repository.ExistsByID
ExistsByID(rr, d, st, id, env) == Exists(rr, d, st, IdFilter(rr, id), env)

\* a write: how the call ends, the collection after it and the caller's
\* changes map after it
Written(res, st, changes) == [res |-> res, store |-> st, changes |-> changes]

\* Repository.Insert
Insert(rr, d, st, v, env) ==
    LET dec == decodeIntoBase(rr, v)
        req == Req("InsertOne", "caller", rr, EmptyMap, dec.val)
        err == DriverErr(d, env.netOK)
    IN  IF dec.status # "ok" THEN Written(dec, st, EmptyMap)
        ELSE IF CollectionPanics(d) THEN Written(Panic(NoReqs), st, EmptyMap)
        ELSE IF rr.baseType.elem # "struct" THEN Written(Err("ErrMarshal", <<req>>), st, EmptyMap)
        ELSE IF err # "nil" THEN Written(Err(err, <<req>>), st, EmptyMap)
        ELSE Written(Ok("InsertOneResult", <<req>>),
                     Append(st, Encode(rr.baseType, dec.val)), EmptyMap)

\* the loop of InsertMany leaving out the elements that do not decode
RECURSIVE decodeAll_skipping(_, _, _, _)
decodeAll_skipping(rr, v, i, decoded) ==
    IF i > Len(v) THEN Ok(decoded, NoReqs)
    ELSE LET dec == decodeIntoBase(rr, v[i])
         IN  IF dec.status # "ok" THEN decodeAll_skipping(rr, v, i + 1, decoded)
             ELSE decodeAll_skipping(rr, v, i + 1, Append(decoded, dec.val))

\* the loop of InsertMany over v from its i-th element on
RECURSIVE decodeAll(_, _, _, _)
decodeAll(rr, v, i, decoded) ==
    IF i > Len(v) THEN Ok(decoded, NoReqs)
    ELSE LET dec == decodeIntoBase(rr, v[i])
         IN  IF dec.status # "ok" THEN dec
             ELSE decodeAll(rr, v, i + 1, Append(decoded, dec.val))

\* Repository.InsertMany; on a failure of the driver env.failAt documents
\* of the batch may already have been written
InsertMany(rr, d, st, v, env) ==
    LET dec == decodeAll(rr, v, 1, << >>)
        req == Req("InsertMany", "caller", rr, EmptyMap, dec.val)
        err == DriverErr(d, env.netOK)
        docs == [i \in 1..Len(v) |-> Encode(rr.baseType, dec.val[i])]
    IN  IF dec.status # "ok" THEN Written(dec, st, EmptyMap)
        ELSE IF CollectionPanics(d) THEN Written(Panic(NoReqs), st, EmptyMap)
        ELSE IF Len(v) = 0 THEN Written(Err("ErrEmptySlice", <<req>>), st, EmptyMap)
        ELSE IF rr.baseType.elem # "struct" THEN Written(Err("ErrMarshal", <<req>>), st, EmptyMap)
        ELSE IF err = "ErrClientDisconnected" THEN Written(Err(err, <<req>>), st, EmptyMap)
        ELSE IF err # "nil"
             THEN Written(Err(err, <<req>>), st \o SubSeq(docs, 1, IF env.failAt < Len(docs) THEN env.failAt ELSE 0),
                          EmptyMap)
        ELSE Written(Ok("InsertManyResult", <<req>>), st \o docs, EmptyMap)

\* mongo.UpdateResult
UpdateResult(matched, modified) ==
    [MatchedCount |-> matched, ModifiedCount |-> modified, UpsertedCount |-> 0]

\* the document after {"$set": changes}
SetFields(doc, changes) ==
    [k \in DOMAIN doc \cup DOMAIN changes |->
        IF k \in DOMAIN changes THEN changes[k] ELSE doc[k]]

\* Update without the return on an emptied changes map
Update_alwaysAsksDriver(rr, d, st, f, changes, env) ==
    IF filterMapPanics(rr) THEN Written(Panic(NoReqs), st, changes)
    ELSE LET kept == filterMap(rr, changes)
             req == Req("UpdateOne", "caller", rr, f, kept)
             err == DriverErr(d, env.netOK)
         IN  IF CollectionPanics(d) THEN Written(Panic(NoReqs), st, kept)
             ELSE IF err # "nil" THEN Written(Err(err, <<req>>), st, kept)
             ELSE Written(Ok(UpdateResult(0, 0), <<req>>), st, kept)

\* Update filtering a copy of the changes map and leaving the caller's alone
Update_filtersCopy(rr, d, st, f, changes, env) ==
    IF filterMapPanics(rr) THEN Written(Panic(NoReqs), st, changes)
    ELSE LET kept == filterMap(rr, changes)
             req == Req("UpdateOne", "caller", rr, f, kept)
             err == DriverErr(d, env.netOK)
             i == FirstMatch(st, f)
         IN  IF DOMAIN kept = {} THEN Written(Ok(UpdateResult(0, 0), NoReqs), st, changes)
             ELSE IF CollectionPanics(d) THEN Written(Panic(NoReqs), st, changes)
             ELSE IF err # "nil" THEN Written(Err(err, <<req>>), st, changes)
             ELSE IF i = 0 THEN Written(Ok(UpdateResult(0, 0), <<req>>), st, changes)
             ELSE Written(Ok(UpdateResult(1, IF SetFields(st[i], kept) = st[i] THEN 0 ELSE 1),
                             <<req>>),
                          [st EXCEPT ![i] = SetFields(st[i], kept)], changes)

\* Repository.Update
Update(rr, d, st, f, changes, env) ==
    IF filterMapPanics(rr) THEN Written(Panic(NoReqs), st, changes)
    ELSE LET kept == filterMap(rr, changes)
             req == Req("UpdateOne", "caller", rr, f, kept)
             err == DriverErr(d, env.netOK)
             i == FirstMatch(st, f)
         IN  IF DOMAIN kept = {} THEN Written(Ok(UpdateResult(0, 0), NoReqs), st, kept)
             ELSE IF CollectionPanics(d) THEN Written(Panic(NoReqs), st, kept)
             ELSE IF err # "nil" THEN Written(Err(err, <<req>>), st, kept)
             ELSE IF i = 0 THEN Written(Ok(UpdateResult(0, 0), <<req>>), st, kept)
             ELSE Written(Ok(UpdateResult(1, IF SetFields(st[i], kept) = st[i] THEN 0 ELSE 1),
                             <<req>>),
                          [st EXCEPT ![i] = SetFields(st[i], kept)], kept)

\* Repository.UpdateByID
UpdateByID(rr, d, st, id, changes, env) == Update(rr, d, st, IdFilter(rr, id), changes, env)

\* Delete looking for a match before it deletes
Delete_checksFirst(rr, d, st, f, env) ==
    LET look == Req("Find", "caller", rr, f, NoVal)
        req == Req("DeleteOne", "caller", rr, f, NoVal)
        err == DriverErr(d, env.netOK)
        i == FirstMatch(st, f)
    IN  IF CollectionPanics(d) THEN Written(Panic(NoReqs), st, EmptyMap)
        ELSE IF err # "nil" THEN Written(Err(err, <<look>>), st, EmptyMap)
        ELSE IF i = 0 THEN Written(Err("ErrDocumentNotFound", <<look>>), st, EmptyMap)
        ELSE Written(Ok([DeletedCount |-> 1], <<look, req>>), RemoveAt(st, i), EmptyMap)

\* Repository.Delete
Delete(rr, d, st, f, env) ==
    LET req == Req("DeleteOne", "caller", rr, f, NoVal)
        err == DriverErr(d, env.netOK)
        i == FirstMatch(st, f)
    IN  IF CollectionPanics(d) THEN Written(Panic(NoReqs), st, EmptyMap)
        ELSE IF err # "nil" THEN Written(Err(err, <<req>>), st, EmptyMap)
        ELSE IF i = 0 THEN Written(Ok([DeletedCount |-> 0], <<req>>), st, EmptyMap)
        ELSE Written(Ok([DeletedCount |-> 1], <<req>>), RemoveAt(st, i), EmptyMap)

\* Repository.DeleteMany
DeleteMany(rr, d, st, f, env) ==
    LET req == Req("DeleteMany", "caller", rr, f, NoVal)
        err == DriverErr(d, env.netOK)
    IN  IF CollectionPanics(d) THEN Written(Panic(NoReqs), st, EmptyMap)
        ELSE IF err # "nil" THEN Written(Err(err, <<req>>), st, EmptyMap)
        ELSE Written(Ok([DeletedCount |-> Len(MatchingDocs(st, f))], <<req>>),
                     SelectSeq(st, LAMBDA doc : ~Matches(doc, f)), EmptyMap)

\* Repository.DeleteByID
DeleteByID(rr, d, st, id, env) == Delete(rr, d, st, IdFilter(rr, id), env)

----------------------------------------------------------------------------
(* Inputs of the calls *)

Ids == {1, 2}

\* what the database does during a read: the query fails, or it goes
\* through and the cursor fails after failAt documents (0: it does not)
ReadEnvs ==
    {[netOK |-> FALSE, failAt |-> 0]} \cup {[netOK |-> TRUE, failAt |-> k] : k \in 0..(MaxDocs - 1)}

\* what the database does during a write: it goes through or fails
WriteEnvs == {[netOK |-> ok, failAt |-> 0] : ok \in BOOLEAN}

\* during a batched insert: it goes through, or fails with none or with the
\* first document of the batch written
BatchEnvs == WriteEnvs \cup {[netOK |-> FALSE, failAt |-> 1]}

Filters == { EmptyMap, Map1(sID, 1), Map1(sage, 1) }

MapValue(m) == [kind |-> "map", m |-> m, n |-> 0]
ScalarValue(n) == [kind |-> "scalar", m |-> EmptyMap, n |-> n]

\* values handed to Insert: maps keyed by field names (as structs.Map makes
\* them), keyed in lower case, with a negative number for an unsigned
\* field, and a bare number
valObi == MapValue(Map2(sID, 1, sAge, 1))
valAni == MapValue(Map2(sID, 2, sAge, 1))
valLower == MapValue(Map2(sid, 1, sage, 1))
valInvalid == MapValue(Map1(sID, -1))
valScalar == ScalarValue(7)

InsertValues == {valObi, valAni, valLower, valInvalid, valScalar}

\* the batches handed to InsertMany
InsertBatches ==
    { << >>, <<valObi>>, <<valInvalid>>, <<valObi, valAni>>, <<valAni, valLower>>,
      <<valAni, valInvalid>>, <<valObi, valInvalid, valAni>>, <<valScalar, valScalar>> }

\* keys of the changes maps: storage names, an exposed name that is no
\* storage name, an annotation's segment with its blank, and a stranger
ChangeKeys == {sID, sage, sAge, sb, sBlankB, sX, sZZ}

\* the changes maps with at most MaxChanges entries, values among vals
ChangesOver(keys, vals) ==
    UNION {[ks -> vals] : ks \in {S \in SUBSET keys : Cardinality(S) <= MaxChanges}}

\* the changes maps of the full model: empty, an exposed name only, a
\* stranger only, and a storage name beside a stranger
SomeChanges ==
    { EmptyMap, Map1(sAge, 2), Map1(sZZ, 1), Map2(sage, -1, sZZ, 1) }

----------------------------------------------------------------------------
(* The calls as actions *)

Read(op, args, res) ==
    /\ r.valid
    /\ ret' = Ret(op, args, res, store)
    /\ UNCHANGED <<driver, r, store, calls>>

Write(op, args, w) ==
    /\ r.valid
    /\ Len(w.store) <= MaxDocs
    /\ store' = w.store
    /\ ret' = [Ret(op, args, w.res, store) EXCEPT !.args = Append(args, w.changes)]
    /\ UNCHANGED <<driver, r, calls>>

CallFind(f, env) == Read("Find", <<f, env>>, Find(r, driver, store, f, env))

CallFindByID(id, env) == Read("FindByID", <<id, env>>, FindByID(r, driver, store, id, env))

CallExists(f, env) == Read("Exists", <<f, env>>, Exists(r, driver, store, f, env))

CallExistsByID(id, env) ==
    Read("ExistsByID", <<id, env>>, ExistsByID(r, driver, store, id, env))

CallInsert(v, env) == Write("Insert", <<v, env>>, Insert(r, driver, store, v, env))

CallInsertMany(v, env) ==
    Write("InsertMany", <<v, env>>, InsertMany(r, driver, store, v, env))

CallUpdate(f, changes, env) ==
    Write("Update", <<f, changes, env>>, Update(r, driver, store, f, changes, env))

CallUpdateByID(id, changes, env) ==
    Write("UpdateByID", <<id, changes, env>>, UpdateByID(r, driver, store, id, changes, env))

CallDelete(f, env) == Write("Delete", <<f, env>>, Delete(r, driver, store, f, env))

CallDeleteMany(f, env) ==
    Write("DeleteMany", <<f, env>>, DeleteMany(r, driver, store, f, env))

CallDeleteByID(id, env) ==
    Write("DeleteByID", <<id, env>>, DeleteByID(r, driver, store, id, env))

----------------------------------------------------------------------------
(* Calls of several goroutines on one binding, step by step: a call is     *)
(* entered, reads the binding and the handle's client (collection(r)),     *)
(* hands its request to the driver, a Find then advances its cursor        *)
(* document by document, and the call returns.                             *)

\* a goroutine that is in no call
NoCall ==
    [pc |-> "idle", op |-> "none", args |-> << >>, seen |-> NoRepo,
     cursor |-> << >>, mem |-> << >>, matches |-> << >>, res |-> Ok(NoVal, NoReqs)]

NoCalls == [c \in Callers |-> NoCall]

\* a CRUD method that stores the default identifier field name in the binding
BindingAfter_writesIdField(rr) == [rr EXCEPT !.idField = sDefaultID]

\* the binding after a step of a CRUD method: the methods assign to no
\* field of *r
BindingAfter(rr) == rr

\* the handle after a step of a CRUD method: the methods read
\* r.Driver.Client and r.Driver.Database and assign to no field of it
HandleAfter(d) == d

\* the calls the goroutines make
ConcCalls ==
    { <<"Find", <<EmptyMap>> >>, <<"Insert", <<valObi>> >>, <<"Insert", <<valAni>> >>,
      <<"UpdateByID", <<1, Map1(sage, 2)>> >>, <<"DeleteByID", <<1>> >> }

\* goroutine c enters a method of the binding
ConcCall(c, call) ==
    /\ calls[c].pc = "idle"
    /\ calls' = [calls EXCEPT ![c] = [NoCall EXCEPT !.pc = "entered", !.op = call[1],
                                                    !.args = call[2]]]
    /\ UNCHANGED <<driver, r, store, ret>>

\* the call of c reads the fields of the binding and the client of the handle
ConcResolve(c) ==
    /\ calls[c].pc = "entered"
    /\ calls' = [calls EXCEPT ![c].seen = r,
                              ![c].pc = IF CollectionPanics(driver) THEN "returned" ELSE "resolved",
                              ![c].res = IF CollectionPanics(driver) THEN Panic(NoReqs)
                                         ELSE Ok(NoVal, NoReqs)]
    /\ r' = BindingAfter(r)
    /\ driver' = HandleAfter(driver)
    /\ UNCHANGED <<store, ret>>

\* the write the call k makes with the binding it read
ConcWrite(k, d, st, env) ==
    CASE k.op = "Insert" -> Insert(k.seen, d, st, k.args[1], env)
      [] k.op = "UpdateByID" -> UpdateByID(k.seen, d, st, k.args[1], k.args[2], env)
      [] k.op = "DeleteByID" -> DeleteByID(k.seen, d, st, k.args[1], env)

\* the call of c hands its request to the driver: a write is applied, a
\* query opens a cursor over the documents that match at that moment
ConcRequest(c, env) ==
    LET k == calls[c]
    IN  /\ k.pc = "resolved"
        /\ IF k.op = "Find"
           THEN LET err == DriverErr(driver, env.netOK)
                    req == Req("Find", "caller", k.seen, k.args[1], NoVal)
                IN  /\ calls' = [calls EXCEPT
                                    ![c].pc = IF err # "nil" THEN "returned" ELSE "cursor",
                                    ![c].res = IF err # "nil" THEN Err(err, <<req>>)
                                               ELSE Ok(NoVal, <<req>>),
                                    ![c].cursor = IF err # "nil" THEN << >>
                                                  ELSE MatchingDocs(store, k.args[1])]
                    /\ store' = store
           ELSE LET w == ConcWrite(k, driver, store, env)
                IN  /\ Len(w.store) <= MaxDocs
                    /\ calls' = [calls EXCEPT ![c].pc = "returned", ![c].res = w.res]
                    /\ store' = w.store
        /\ r' = BindingAfter(r)
        /\ driver' = HandleAfter(driver)
        /\ UNCHANGED ret

\* one turn of the loop of decodeCursor in the call of c
ConcNext(c) ==
    LET k == calls[c]
        reqsN == Append(k.res.reqs, Req("Next", "background", k.seen, EmptyMap, NoVal))
        slot == NewInstance(Len(k.matches) + 1)
        dec == DecodeDoc(k.seen.baseType, Head(k.cursor))
        reqsD == Append(reqsN, Req("Decode", "none", k.seen, EmptyMap, slot))
    IN  /\ k.pc = "cursor"
        /\ calls' =
              IF k.cursor = << >>
              THEN [calls EXCEPT ![c].pc = "returned",
                                 ![c].res = Ok(Pointees(k.mem, k.matches), reqsN),
                                 ![c].mem = << >>, ![c].matches = << >>]
              ELSE IF dec.status # "ok"
                   THEN [calls EXCEPT ![c].pc = "returned", ![c].res = Err(dec.err, reqsD),
                                      ![c].cursor = << >>, ![c].mem = << >>,
                                      ![c].matches = << >>]
              ELSE [calls EXCEPT ![c].cursor = Tail(k.cursor),
                                 ![c].mem = Stored(k.mem, slot, dec.val),
                                 ![c].matches = Append(k.matches, slot),
                                 ![c].res = Ok(NoVal, reqsD)]
        /\ r' = BindingAfter(r)
        /\ driver' = HandleAfter(driver)
        /\ UNCHANGED <<store, ret>>

\* the call of c returns to its caller
ConcReturn(c) ==
    /\ calls[c].pc = "returned"
    /\ ret' = Ret(calls[c].op, calls[c].args, calls[c].res, << >>)
    /\ calls' = [calls EXCEPT ![c] = NoCall]
    /\ UNCHANGED <<driver, r, store>>

----------------------------------------------------------------------------
(* Specifications *)

\* the bindings NewRepository returns for the shapes it accepts, on the
\* collection and identifier field of the test setup
Bindings ==
    {NewRepository(t, "driver", sTest, sID).val : t \in {PtrTestDocument, PtrUint}}

\* the whole layer: a handle made by NewDriver, a binding made by
\* NewRepository, and every call on either
Init ==
    /\ driver = NewDriver("mongodb://a:1")
    /\ r \in Bindings
    /\ store = << >>
    /\ ret = NoRet
    /\ calls = NoCalls

Next ==
    \/ \E ok \in BOOLEAN : OpenConnection(ok)
    \/ \E ok \in BOOLEAN, torn \in BOOLEAN : CloseConnection(ok, torn)
    \/ \E f \in Filters, env \in ReadEnvs : CallFind(f, env)
    \/ \E id \in Ids, env \in ReadEnvs : CallFindByID(id, env)
    \/ \E f \in Filters, env \in ReadEnvs : CallExists(f, env)
    \/ \E id \in Ids, env \in ReadEnvs : CallExistsByID(id, env)
    \/ \E v \in InsertValues, env \in WriteEnvs : CallInsert(v, env)
    \/ \E v \in InsertBatches, env \in BatchEnvs : CallInsertMany(v, env)
    \/ \E f \in Filters, c \in SomeChanges, env \in WriteEnvs : CallUpdate(f, c, env)
    \/ \E id \in Ids, c \in SomeChanges, env \in WriteEnvs : CallUpdateByID(id, c, env)
    \/ \E f \in Filters, env \in WriteEnvs : CallDelete(f, env)
    \/ \E f \in Filters, env \in WriteEnvs : CallDeleteMany(f, env)
    \/ \E id \in Ids, env \in WriteEnvs : CallDeleteByID(id, env)

Spec == Init /\ [][Next]_vars

\* the connection handle alone
InitConn ==
    /\ driver \in {[NewDriver(u) EXCEPT !.Options = o] : u \in URLs, o \in ConfiguredURIs}
    /\ r = NoRepo
    /\ store = << >>
    /\ ret = NoRet
    /\ calls = NoCalls

NextConn ==
    \/ \E ok \in BOOLEAN : OpenConnection(ok)
    \/ \E ok \in BOOLEAN, torn \in BOOLEAN : CloseConnection(ok, torn)
    \/ \E ok \in BOOLEAN : IsAlive(ok)
    \/ \E u \in URLs : SetURL(u)

SpecConn == InitConn /\ [][NextConn]_vars

\* construction of a binding
InitNew ==
    /\ driver = NewDriver("mongodb://a:1")
    /\ r = NoRepo
    /\ store = << >>
    /\ ret = NoRet
    /\ calls = NoCalls

NextNew ==
    \E t \in Shapes, drv \in DriverRefs, c \in Collections, idf \in IdFields :
        Construct(t, drv, c, idf)

SpecNew == InitNew /\ [][NextNew]_vars

\* Update over every small changes map, on the record shapes
UpdateBindings ==
    {NewRepository(t, "driver", sTest, sID).val : t \in {PtrTestDocument, PtrMixedDocument}}

InitUpdate ==
    /\ driver = NewDriver("mongodb://a:1")
    /\ r \in UpdateBindings
    /\ store = << >>
    /\ ret = NoRet
    /\ calls = NoCalls

NextUpdate ==
    \/ \E ok \in BOOLEAN : OpenConnection(ok)
    \/ \E ok \in BOOLEAN, torn \in BOOLEAN : CloseConnection(ok, torn)
    \/ \E c \in ChangesOver(ChangeKeys, Ids), env \in WriteEnvs :
            CallUpdate(Map1(sID, 1), c, env)

SpecUpdate == InitUpdate /\ [][NextUpdate]_vars

\* insert, look up and delete by identifier, on the test document and on the
\* document whose identifier is stored under another name
RoundBindings ==
    {NewRepository(t, "driver", sTest, sID).val : t \in {PtrTestDocument, PtrKeyedDocument}}

RoundValues == {valObi, valAni, valLower, valInvalid}

InitRound ==
    /\ driver = NewDriver("mongodb://a:1")
    /\ r \in RoundBindings
    /\ store = << >>
    /\ ret = NoRet
    /\ calls = NoCalls

NextRound ==
    \/ \E ok \in BOOLEAN : OpenConnection(ok)
    \/ \E ok \in BOOLEAN, torn \in BOOLEAN : CloseConnection(ok, torn)
    \/ \E v \in RoundValues, env \in WriteEnvs : CallInsert(v, env)
    \/ \E id \in Ids, env \in ReadEnvs : CallFindByID(id, env)
    \/ \E id \in Ids, env \in WriteEnvs : CallDeleteByID(id, env)

SpecRound == InitRound /\ [][NextRound]_vars

\* two goroutines calling into one binding over an opened handle
ConcBinding == NewRepository(PtrTestDocument, "driver", sTest, sID).val

InitConc ==
    /\ driver = OpenConnectionDriver(NewDriver("mongodb://a:1"), TRUE)
    /\ r = ConcBinding
    /\ store = << >>
    /\ ret = NoRet
    /\ calls = NoCalls

NextConc ==
    \E c \in Callers :
        \/ \E call \in ConcCalls : ConcCall(c, call)
        \/ ConcResolve(c)
        \/ \E env \in WriteEnvs : ConcRequest(c, env)
        \/ ConcNext(c)
        \/ ConcReturn(c)

SpecConc == InitConc /\ [][NextConc]_vars

\* construction of a binding with each identifier field name, then the
\* calls by identifier on it
InitId ==
    /\ driver = NewDriver("mongodb://a:1")
    /\ r = NoRepo
    /\ store = << >>
    /\ ret = NoRet
    /\ calls = NoCalls

NextId ==
    \/ \E t \in {PtrTestDocument, PtrKeyedDocument}, idf \in IdFields :
            Construct(t, "driver", sTest, idf)
    \/ \E ok \in BOOLEAN : OpenConnection(ok)
    \/ \E v \in {valObi, valAni}, env \in WriteEnvs : CallInsert(v, env)
    \/ \E id \in Ids, env \in ReadEnvs : CallFindByID(id, env)
    \/ \E id \in Ids, env \in ReadEnvs : CallExistsByID(id, env)
    \/ \E id \in Ids, env \in WriteEnvs : CallUpdateByID(id, Map1(sage, 2), env)
    \/ \E id \in Ids, env \in WriteEnvs : CallDeleteByID(id, env)

SpecId == InitId /\ [][NextId]_vars

----------------------------------------------------------------------------
(* Vocabulary of the properties *)

CrudOps ==
    { "Find", "FindByID", "Exists", "ExistsByID", "Insert", "InsertMany",
      "Update", "UpdateByID", "Delete", "DeleteMany", "DeleteByID" }

\* the errors that come from the driver
DriverErrors == {"ErrClientDisconnected", "ErrDriver", "ErrMarshal", "ErrEmptySlice"}

\* strings.Trim(s, " ") leaves nothing
Blank(s) == Trim(s) = EmptyStr

\* the storage-name of a field as filterMap reads it
StorageName(field) ==
    IF field.hasTag THEN SplitFirst(Trim(field.Tag)) ELSE field.Name

StorageNames(t) == {StorageName(f) : f \in FieldSet(t)}

\* the storage-name of a field read off the annotation as it is written
WrittenStorageName(field) ==
    IF field.hasTag THEN SplitFirst(field.Tag) ELSE field.Name

\* the entries of map m whose key is in keys
Restrict(m, keys) == [k \in DOMAIN m \cap keys |-> m[k]]

\* the handle has a client and that client has been disconnected
HandleClosed == driver.Client.present /\ ~driver.Client.connected

\* the handle has a connected client
HandleOpen == driver.Client.present /\ driver.Client.connected

\* the documents of st whose field key holds id
DocsWithID(st, key, id) == {i \in DOMAIN st : key \in DOMAIN st[i] /\ st[i][key] = id}

\* the cursor of a read over n matching documents failed part-way
CursorFailed(env, n) == env.failAt >= 1 /\ env.failAt < n

\* a database that answers every request of a call
GoodEnv == [netOK |-> TRUE, failAt |-> 0]

----------------------------------------------------------------------------
(* C1 *)

\* C1: when the query and its cursor go through, FindByID(id) returns the one
\* record whose identifier field holds id if there is exactly one such
\* document, ErrDocumentNotFound and no record if there is none, and
\* ErrMultipleMatches and no record if there are two or more.
C1_FindByIDExactlyOne ==
    ret.op = "FindByID" =>
        LET id == ret.args[1]
            env == ret.args[2]
            hits == DocsWithID(store, r.idField, id)
            n == Cardinality(hits)
            found == Find(r, driver, store, IdFilter(r, id), env)
        IN  (found.status = "ok" /\ ~CursorFailed(env, n)) =>
                /\ n = 1 =>
                      /\ ret.status = "ok"
                      /\ ret.val = DecodeDoc(r.baseType, store[CHOOSE i \in hits : TRUE]).val
                /\ n = 0 =>
                      /\ ret.status = "err"
                      /\ ret.err = "ErrDocumentNotFound"
                      /\ ret.val = NoVal
                /\ n >= 2 =>
                      /\ ret.status = "err"
                      /\ ret.err = "ErrMultipleMatches"
                      /\ ret.val = NoVal

\* FindByID has answered ErrMultipleMatches on a collection in which two
\* documents share the identifier, beside a document with another one
C1_Witness ==
    /\ ret.op = "FindByID"
    /\ ret.err = "ErrMultipleMatches"
    /\ Cardinality(DocsWithID(store, r.idField, ret.args[1])) = 2

----------------------------------------------------------------------------
(* C2 *)

\* C2: NewRepository fails exactly when the connection is nil, or the
\* collection name is empty or blank, or the shape is not a pointer to a
\* struct; otherwise it succeeds and Type() of the binding is the shape
\* that was passed in.
C2_FailsExactlyWhen ==
    ret.op = "NewRepository" =>
        LET shape == ret.args[1]
            drv == ret.args[2]
            coll == ret.args[3]
            mustFail == drv = "nil" \/ Blank(coll) \/ ~IsRecordShape(shape)
        IN  /\ (ret.status = "err") <=> mustFail
            /\ ~mustFail => (ret.status = "ok" /\ r.valid /\ ret.val = shape)

----------------------------------------------------------------------------
(* C3 *)

\* C3: on a binding that NewRepository returned, no CRUD call crashes: each
\* ends by returning a result or an error value, whatever the state of the
\* handle and whatever shape passed construction.
C3_NoCrudCallCrashes ==
    (r.valid /\ ret.op \in CrudOps) => ret.status \in {"ok", "err"}

----------------------------------------------------------------------------
(* C4 *)

\* the changes map the last Update or UpdateByID was called with
ChangesGiven == ret.args[2]

\* C4: on a binding over a record shape, Update (and UpdateByID) with a
\* changes map none of whose keys is a storage-name of the shape, the empty
\* map included, issues no driver call and returns without error the
\* descriptor matched=0, modified=0, upserted=0; the collection is as it was.
C4_UpdateShortCircuits ==
    (/\ ret.op \in {"Update", "UpdateByID"}
     /\ IsRecordShape(r.baseType)
     /\ DOMAIN ChangesGiven \cap StorageNames(r.baseType) = {}) =>
        /\ ret.status = "ok"
        /\ ret.reqs = NoReqs
        /\ ret.val = [MatchedCount |-> 0, ModifiedCount |-> 0, UpsertedCount |-> 0]
        /\ store = ret.pre

\* Update was called on an open handle with a filter that matches a stored
\* document and with changes that name no field, and returned
C4_Witness ==
    /\ ret.op = "Update"
    /\ HandleOpen
    /\ DOMAIN ChangesGiven # {}
    /\ DOMAIN ChangesGiven \cap StorageNames(r.baseType) = {}
    /\ FirstMatch(store, ret.args[1]) # 0
    /\ ret.status = "ok"

----------------------------------------------------------------------------
(* C5 *)

\* the set-fields update the last Update handed to the driver
SetSent == ret.reqs[1].arg

\* C5 as amended: the set-fields update that Update sends holds exactly the
\* entries of changes whose key is the storage-name of some field, values
\* unchanged, the storage-name being the first comma-separated segment of
\* the annotation after the blanks around the whole annotation are trimmed,
\* and the exposed-name for a field without annotation; a key equal to the
\* exposed-name of an annotated field whose storage-name differs is dropped
\* unless it is the storage-name of some field.
C5_SetHoldsStorageNamedEntries ==
    (ret.op = "Update" /\ ret.reqs # NoReqs) =>
        /\ ret.reqs[1].call = "UpdateOne"
        /\ SetSent = Restrict(ChangesGiven, StorageNames(r.baseType))
        /\ \A f \in FieldSet(r.baseType) :
              (f.hasTag /\ StorageName(f) # f.Name /\ f.Name \notin StorageNames(r.baseType))
                  => f.Name \notin DOMAIN SetSent

\* C5 as stated: the storage-name of an annotated field is the first
\* comma-separated segment of its annotation, and a key equal to the
\* exposed-name of an annotated field whose storage-name differs is dropped.
C5_AsStated ==
    (ret.op = "Update" /\ ret.reqs # NoReqs) =>
        /\ SetSent = Restrict(ChangesGiven, {WrittenStorageName(f) : f \in FieldSet(r.baseType)})
        /\ \A f \in FieldSet(r.baseType) :
              (f.hasTag /\ WrittenStorageName(f) # f.Name) => f.Name \notin DOMAIN SetSent

\* Update was given a storage-name beside the exposed-name of an annotated
\* field, and sent the one without the other
C5_Witness ==
    /\ ret.op = "Update"
    /\ ret.reqs # NoReqs
    /\ r.baseType = PtrTestDocument
    /\ DOMAIN ChangesGiven = {sage, sAge}
    /\ DOMAIN SetSent = {sage}

----------------------------------------------------------------------------
(* C6 *)

\* the values the last InsertMany was called with
BatchGiven == ret.args[1]

\* the elements of the batch that do not decode into the base type
Undecodable(rr, v) == {i \in DOMAIN v : decodeIntoBase(rr, v[i]).status # "ok"}

\* C6: if the coercion of an element fails, InsertMany returns that error,
\* issues no insert request and leaves the collection as it was; if every
\* coercion succeeds (and the handle has a client), it issues exactly one
\* request, InsertMany, carrying the coerced values in the order given.
C6_InsertManyAllOrNothing ==
    ret.op = "InsertMany" =>
        /\ Undecodable(r, BatchGiven) # {} =>
              /\ ret.status = "err"
              /\ ret.err = "ErrDecode"
              /\ ret.reqs = NoReqs
              /\ store = ret.pre
        /\ (Undecodable(r, BatchGiven) = {} /\ driver.Client.present) =>
              /\ Len(ret.reqs) = 1
              /\ ret.reqs[1].call = "InsertMany"
              /\ ret.reqs[1].arg =
                    [i \in 1..Len(BatchGiven) |-> decodeIntoBase(r, BatchGiven[i]).val]

\* InsertMany was given valid, invalid, valid on an open handle and failed
C6_Witness ==
    /\ ret.op = "InsertMany"
    /\ HandleOpen
    /\ BatchGiven = <<valObi, valInvalid, valAni>>
    /\ ret.status = "err"

----------------------------------------------------------------------------
(* C7 *)

\* C7: Exists(filter) is true exactly when Find(filter) on the same state
\* returns at least one record, and returns an error exactly when Find
\* does; ExistsByID(id) is Exists({idField: id}): true without error when
\* two or more documents share the id, false without error when none has
\* it, never ErrDocumentNotFound or ErrMultipleMatches.
C7_ExistsIffFindFinds ==
    /\ ret.op = "Exists" =>
          LET found == Find(r, driver, store, ret.args[1], ret.args[2])
          IN  /\ ret.status = found.status
              /\ ret.err = found.err
              /\ ret.status # "panic" =>
                    (ret.val <=> (found.status = "ok" /\ Len(found.val) >= 1))
    /\ ret.op = "ExistsByID" =>
          LET id == ret.args[1]
              env == ret.args[2]
              same == Exists(r, driver, store, IdFilter(r, id), env)
              found == Find(r, driver, store, IdFilter(r, id), env)
              n == Cardinality(DocsWithID(store, r.idField, id))
          IN  /\ ret.status = same.status /\ ret.err = same.err /\ ret.val = same.val
              /\ ret.err \notin {"ErrDocumentNotFound", "ErrMultipleMatches"}
              /\ found.status = "ok" =>
                    /\ ret.status = "ok"
                    /\ n = 0 => ret.val = FALSE
                    /\ (n >= 2 /\ ~CursorFailed(env, n)) => ret.val = TRUE

\* ExistsByID has answered true for an id that two documents share
C7_Witness ==
    /\ ret.op = "ExistsByID"
    /\ ret.status = "ok"
    /\ ret.val = TRUE
    /\ Cardinality(DocsWithID(store, r.idField, ret.args[1])) = 2

----------------------------------------------------------------------------
(* C8 *)

\* C8: IsAlive never returns an error; on a handle that was never opened it
\* returns false, on a connected client it returns whether the liveness
\* probe succeeded, and after close it returns false.
C8_IsAliveTellsProbe ==
    ret.op = "IsAlive" =>
        /\ ret.status = "ok"
        /\ ~driver.Client.present => ret.val = FALSE
        /\ HandleOpen => (ret.val <=> ret.args[1])
        /\ HandleClosed => ret.val = FALSE

----------------------------------------------------------------------------
(* C9 *)

\* C9: close on a handle without client succeeds without a driver call;
\* a successful close clears the client reference and a successful open
\* sets it, so that a close right after a successful close is again a
\* no-op that succeeds.
C9_CloseClearsClient ==
    /\ (ret.op = "CloseConnection" /\ ~ret.args[1]) =>
          (ret.status = "ok" /\ ret.reqs = NoReqs)
    /\ (ret.op = "CloseConnection" /\ ret.status = "ok") => ~driver.Client.present
    /\ (ret.op = "OpenConnection" /\ ret.status = "ok") => driver.Client.present

----------------------------------------------------------------------------
(* C10 *)

\* the last call ended before it reached the driver, as it does on an open
\* handle: Update with no storage-named key, Insert with a failed coercion
EndedBeforeDriver ==
    \/ /\ ret.op \in {"Update", "UpdateByID"}
       /\ DOMAIN ChangesGiven \cap StorageNames(r.baseType) = {}
       /\ ret.status = "ok"
       /\ ret.val = [MatchedCount |-> 0, ModifiedCount |-> 0, UpsertedCount |-> 0]
    \/ /\ ret.op = "Insert"
       /\ decodeIntoBase(r, ret.args[1]).status # "ok"
       /\ ret.status = "err"
       /\ ret.err = "ErrDecode"
    \/ /\ ret.op = "InsertMany"
       /\ Undecodable(r, BatchGiven) # {}
       /\ ret.status = "err"
       /\ ret.err = "ErrDecode"

\* C10 as amended: on a binding over a record shape whose opened handle has
\* been closed by another owner, no CRUD call crashes, and every CRUD call
\* that reaches the driver returns a driver error; a call that ends before
\* it reaches the driver ends as on an open handle: Update and UpdateByID
\* with no storage-named key report success with a zero descriptor, Insert
\* and InsertMany with a failed coercion return the decode error.
C10_ClosedHandleFailsAtDriver ==
    (ret.op \in CrudOps /\ HandleClosed /\ IsRecordShape(r.baseType)) =>
        /\ ret.status \in {"ok", "err"}
        /\ ret.reqs # NoReqs => (ret.status = "err" /\ ret.err \in DriverErrors)
        /\ ret.reqs = NoReqs => EndedBeforeDriver
        /\ store = ret.pre

\* C10 as stated: once the handle is closed, every CRUD call on the binding
\* returns an error value (the driver's, or that of the decoder the call
\* runs first); none crashes and none reports success.
C10_AsStated ==
    (ret.op \in CrudOps /\ HandleClosed /\ IsRecordShape(r.baseType)) =>
        (ret.status = "err" /\ ret.err \in DriverErrors \cup {"ErrDecode"})

\* Update with a storage-named key was called on a closed handle while the
\* collection held a matching document, and came back with the driver's error
C10_Witness ==
    /\ ret.op = "Update"
    /\ HandleClosed
    /\ FirstMatch(store, ret.args[1]) # 0
    /\ ret.reqs # NoReqs
    /\ ret.err = "ErrClientDisconnected"

----------------------------------------------------------------------------
(* C11 *)

\* the record the last Insert coerced its value into
RecordInserted == decodeIntoBase(r, ret.args[1]).val

\* the documents of st that decode into a record whose identifier field
\* (the field whose exposed-name is the binding's idField) holds id
RecordsWithID(rr, st, id) ==
    {i \in DOMAIN st :
        LET dec == DecodeDoc(rr.baseType, st[i])
        IN  dec.status = "ok" /\ dec.val[rr.idField] = id}

\* C11: after Insert(record) succeeds on a collection that holds no other
\* document with the record's identifier, FindByID(identifier) returns a
\* record equal to the original field for field, whatever the storage-name
\* annotations of the shape, also when the identifier field's storage-name
\* differs from its exposed-name.
C11_RoundTrip ==
    (/\ ret.op = "Insert"
     /\ ret.status = "ok"
     /\ IsRecordShape(r.baseType)
     /\ r.idField \in FieldNames(r.baseType)
     /\ RecordsWithID(r, ret.pre, RecordInserted[r.idField]) = {}) =>
        LET back == FindByID(r, driver, store, RecordInserted[r.idField], GoodEnv)
        IN  back.status = "ok" /\ back.val = RecordInserted

----------------------------------------------------------------------------
(* C12 *)

\* C12: every driver call that a CRUD operation issues, each cursor advance
\* of Find included, is given the context the caller passed to the
\* operation, so that none runs on under a context that the caller's
\* cancellation does not reach (the decoding of the current document works
\* on the batch already fetched and takes no context).
C12_EveryDriverCallUnderCallersContext ==
    ret.op \in CrudOps =>
        \A i \in DOMAIN ret.reqs :
            ret.reqs[i].call # "Decode" => ret.reqs[i].ctx = "caller"

----------------------------------------------------------------------------
(* C13 *)

\* the documents the last Find was to fetch: those matching its filter
AllMatching == MatchingDocs(store, ret.args[1])

\* C13: Find on a handle with a client never returns a partial result: if
\* the query fails, if a matching document cannot be decoded, or if the
\* cursor fails part-way through the results, Find returns an error and no
\* records; it returns records without error only when every matching
\* document was fetched and decoded.
C13_FindNeverPartial ==
    (ret.op = "Find" /\ driver.Client.present) =>
        LET env == ret.args[2]
            mustFail ==
                \/ DriverErr(driver, env.netOK) # "nil"
                \/ \E i \in DOMAIN AllMatching :
                       DecodeDoc(r.baseType, AllMatching[i]).status # "ok"
                \/ CursorFailed(env, Len(AllMatching))
        IN  /\ mustFail => ret.status = "err"
            /\ ret.status = "err" => ret.val = NoVal
            /\ ret.status = "ok" =>
                  ret.val = [i \in DOMAIN AllMatching |->
                                DecodeDoc(r.baseType, AllMatching[i]).val]

----------------------------------------------------------------------------
(* C14 *)

DeleteOps == {"Delete", "DeleteMany", "DeleteByID"}

\* the filter the last delete operation is to hand to the driver
DeleteFilter ==
    IF ret.op = "DeleteByID" THEN Map1(r.idField, ret.args[1]) ELSE ret.args[1]

\* C14: on a handle with a client, Delete, DeleteMany and DeleteByID issue
\* one driver request and nothing before it, carrying the filter unchanged
\* (DeleteByID the filter {idField: id}); when the request goes through and
\* nothing matches they succeed with a zero count and leave the collection
\* as it was; Delete and DeleteByID remove one matching document when there
\* is one, DeleteMany removes every matching document and no other.
C14_DeletesPassFilterThrough ==
    (ret.op \in DeleteOps /\ driver.Client.present) =>
        LET f == DeleteFilter
            n == Len(MatchingDocs(ret.pre, f))
        IN  /\ Len(ret.reqs) = 1
            /\ ret.reqs[1].call = (IF ret.op = "DeleteMany" THEN "DeleteMany" ELSE "DeleteOne")
            /\ ret.reqs[1].filter = f
            /\ ret.reqs[1].coll = r.collection
            /\ ret.status = "err" => store = ret.pre
            /\ DriverErr(driver, ret.args[2].netOK) = "nil" =>
                  /\ ret.status = "ok"
                  /\ n = 0 => (ret.val.DeletedCount = 0 /\ store = ret.pre)
                  /\ ret.op # "DeleteMany" =>
                        /\ ret.val.DeletedCount = (IF n = 0 THEN 0 ELSE 1)
                        /\ n > 0 => \E i \in DOMAIN ret.pre :
                                        /\ Matches(ret.pre[i], f)
                                        /\ store = RemoveAt(ret.pre, i)
                  /\ ret.op = "DeleteMany" =>
                        /\ ret.val.DeletedCount = n
                        /\ store = SelectSeq(ret.pre, LAMBDA doc : ~Matches(doc, f))

\* DeleteByID was called with an identifier that no document of a
\* collection that is not empty carries, and succeeded with a zero count
C14_Witness ==
    /\ ret.op = "DeleteByID"
    /\ ret.pre # << >>
    /\ MatchingDocs(ret.pre, DeleteFilter) = << >>
    /\ ret.status = "ok"
    /\ ret.val.DeletedCount = 0

----------------------------------------------------------------------------
(* C15 *)

\* the goroutines whose call has read the binding
HaveRead == {c \in Callers : calls[c].pc \in {"resolved", "cursor", "returned"}}

\* C15: under every interleaving of the steps of concurrent CRUD calls on
\* one binding, no step writes the binding's record shape, identifier field
\* name, collection name or connection reference, and none writes a field
\* of the shared handle; every call reads the values NewRepository set.
C15_BindingImmutable ==
    /\ [][r' = r /\ driver' = driver]_vars
    /\ [](\A c \in HaveRead : calls[c].seen = ConcBinding)

\* a Find is advancing its cursor while a write of the other goroutine,
\* requested after the query, has changed the collection
C15_Witness ==
    /\ calls["c1"].pc = "cursor"
    /\ calls["c1"].cursor # << >>
    /\ calls["c2"].pc = "returned"
    /\ calls["c2"].op = "DeleteByID"
    /\ calls["c2"].res.status = "ok"
    /\ Len(store) < Len(calls["c1"].cursor) + Len(calls["c1"].matches)

----------------------------------------------------------------------------
(* C16 *)

ByIDOps == {"FindByID", "ExistsByID", "UpdateByID", "DeleteByID"}

\* how the operation that a by-identifier call delegates to ends on the
\* filter f, from the collection as it was when the call began
Delegate(f) ==
    CASE ret.op = "FindByID" -> Find(r, driver, ret.pre, f, ret.args[2])
      [] ret.op = "ExistsByID" -> Exists(r, driver, ret.pre, f, ret.args[2])
      [] ret.op = "UpdateByID" ->
            Update(r, driver, ret.pre, f, ret.args[2], ret.args[3]).res
      [] ret.op = "DeleteByID" -> Delete(r, driver, ret.pre, f, ret.args[2]).res

\* C16: NewRepository given a blank identifier field name (empty or only
\* blanks) binds the default "_id", and otherwise the given name unchanged;
\* FindByID, ExistsByID, UpdateByID and DeleteByID build the one-entry
\* filter {idField: id} with the bound name and hand it to Find, Exists,
\* Update and Delete.
C16_IdFieldDefaultAndFilters ==
    /\ (ret.op = "NewRepository" /\ ret.status = "ok") =>
          r.idField = (IF Blank(ret.args[4]) THEN sDefaultID ELSE ret.args[4])
    /\ (ret.op \in ByIDOps /\ driver.Client.present) =>
          LET f == Map1(r.idField, ret.args[1])
          IN  /\ ret.reqs = Delegate(f).reqs
              /\ ret.reqs # NoReqs => ret.reqs[1].filter = f
              /\ ret.op # "FindByID" =>
                    /\ ret.status = Delegate(f).status
                    /\ ret.err = Delegate(f).err
                    /\ ret.val = Delegate(f).val

----------------------------------------------------------------------------
(* C17 *)

\* the documents the cursor of the last Find yielded
CursorYield == Yielded(AllMatching, ret.args[2].failAt)

\* the instances the last Find decoded into, in the order of the turns
InstancesUsed ==
    LET decodes == SelectSeq(ret.reqs, LAMBDA q : q.call = "Decode")
    IN  [i \in DOMAIN decodes |-> decodes[i].arg]

\* C17: when Find succeeds it returns one record per document its cursor
\* yielded for the filter, in cursor order, each decoded into an instance
\* of its own; when no document matches it returns the empty sequence
\* without error.
C17_FindOneRecordPerDocument ==
    (ret.op = "Find" /\ driver.Client.present) =>
        /\ ret.status = "ok" =>
              /\ ret.val = [i \in DOMAIN CursorYield |->
                               DecodeDoc(r.baseType, CursorYield[i]).val]
              /\ Len(InstancesUsed) = Len(ret.val)
              /\ \A i, j \in DOMAIN InstancesUsed :
                    i # j => InstancesUsed[i] # InstancesUsed[j]
        /\ (DriverErr(driver, ret.args[2].netOK) = "nil" /\ AllMatching = << >>) =>
              (ret.status = "ok" /\ ret.val = << >>)

\* Find has returned two records that differ, in the order of the collection
C17_Witness ==
    /\ ret.op = "Find"
    /\ ret.status = "ok"
    /\ Len(ret.val) = 2
    /\ ret.val[1] # ret.val[2]
    /\ ret.val[1] = DecodeDoc(r.baseType, store[1]).val

----------------------------------------------------------------------------
(* C18 *)

\* the endpoint URIs a caller writes into the options himself; the URIs
\* derived from the endpoint descriptor are not among them
ExplicitURIs == ConfiguredURIs \ {NoURI}

\* C18: every open call on a handle for which the caller configured no
\* explicit endpoint URI connects to the URI derived from the endpoint
\* descriptor as it is at that call, also a second open after the
\* descriptor was changed.
C18_OpenConnectsToCurrentURL ==
    (/\ ret.op = "OpenConnection"
     /\ ret.status = "ok"
     /\ driver.Options \notin ExplicitURIs) =>
        driver.Client.uri = driver.URL

----------------------------------------------------------------------------
(* C19 *)

\* the caller's changes map as the last Update left it
ChangesLeft == ret.args[4]

\* C19: after Update has returned, whether it short-circuited, succeeded or
\* failed at the driver, the caller's changes map holds exactly its entries
\* whose key is a storage-name of the record shape (as Update's filter step
\* resolves it), every other entry having been deleted from it; the driver
\* is handed the filter as the caller gave it; and a second Update with the
\* same map leaves it as it is and sends the same set-fields update.
C19_UpdateFiltersInPlace ==
    (ret.op = "Update" /\ ret.status \in {"ok", "err"}) =>
        /\ ChangesLeft = Restrict(ChangesGiven, StorageNames(r.baseType))
        /\ ret.reqs # NoReqs =>
              /\ ret.reqs[1].filter = ret.args[1]
              /\ SetSent = ChangesLeft
        /\ LET again == Update(r, driver, store, ret.args[1], ChangesLeft, ret.args[3])
           IN  /\ again.changes = ChangesLeft
               /\ ret.reqs # NoReqs =>
                     /\ again.res.reqs # NoReqs
                     /\ again.res.reqs[1].arg = SetSent

\* Update was given a storage-name beside a stranger, failed at the driver,
\* and left the caller's map with the storage-named entry alone
C19_Witness ==
    /\ ret.op = "Update"
    /\ ret.status = "err"
    /\ ret.reqs # NoReqs
    /\ DOMAIN ChangesGiven = {sage, sZZ}
    /\ DOMAIN ChangesLeft = {sage}

====
